---- MODULE Spec2Model ----
(***************************************************************************)
(* A model of the proxy session of prism-vnc-proxy:                        *)
(* WSGIPrismWebsocketProxy.prism_websocket_handler and the two relay       *)
(* coroutines client_await and server_await                                *)
(* (src/wsgi_prism_websocket_proxy.py).                                    *)
(*                                                                         *)
(* Every variable is a function of the session: one session is one call of *)
(* prism_websocket_handler, which owns its request, its client_ws and its  *)
(* server_ws as local variables.  A step of the model is what one          *)
(* coroutine does between two awaits.                                      *)
(***************************************************************************)
EXTENDS Integers, Sequences, FiniteSets, TLC

\* ------------------------------------------------------------------ bounds
\* The number of frames the client peer sends in one session.
MaxClientFrames == 2
\* The number of messages the backend peer sends in one session.
MaxBackendMsgs == 2

\* The sessions the variables range over, and those the base specification runs.
AllSessions == {1, 2}
SpecSessions == {1}

\* ------------------------------------------------------------------ values
None == "None"

ValidUuid == "123e4567-e89b-12d3-a456-426614174000"
MalformedUuid == "not-a-uuid"
\* request.match_info.get('vm_uuid', None)
UuidValues == {None, MalformedUuid, ValidUuid}
WellFormedUuids == {ValidUuid}

\* The query string of the request URL, when it has one.
Queries == {None, "proxyClusterUuid=c1"}

\* A request: its vm_uuid, whether it is a valid WebSocket upgrade (what
\* client_ws.prepare(request) checks), and the query string of its URL.
Requests == [vm_uuid : UuidValues, upgrade : BOOLEAN, query : Queries]
NoRequest == [vm_uuid |-> None, upgrade |-> FALSE, query |-> None]

\* self._host
Host == "prism"

\* str(request.rel_url) for a request routed to /proxy/{vm_uuid}, cut into
\* the pieces that str.replace can match: the route prefix, the rest of the
\* path and the query string.
RelUrl(r) ==
    <<"/proxy", "/" \o r.vm_uuid>> \o
    (IF r.query = None THEN <<>> ELSE <<"?" \o r.query>>)

\* str.replace(old, new, 1) on the pieces: the first piece equal to old.
RECURSIVE ReplaceFirst(_, _, _)
ReplaceFirst(pieces, old, new) ==
    IF pieces = <<>> THEN <<>>
    ELSE IF Head(pieces) = old THEN <<new>> \o Tail(pieces)
    ELSE <<Head(pieces)>> \o ReplaceFirst(Tail(pieces), old, new)

RECURSIVE Join(_)
Join(pieces) == IF pieces = <<>> THEN "" ELSE Head(pieces) \o Join(Tail(pieces))

\* vnc_rel_url = str(request.rel_url).replace("/proxy", "/vnc/vm", 1)
\* vnc_rel_url += "/proxy"
\* uri = f"wss://{self._host}:9440{vnc_rel_url}"
BackendUri(r) ==
    "wss://" \o Host \o ":9440"
    \o Join(ReplaceFirst(RelUrl(r), "/proxy", "/vnc/vm")) \o "/proxy"

\* A payload is a Python str or a Python bytes; bytes are written in hex.
Str(v) == [t |-> "str", v |-> v]
Bytes(v) == [t |-> "bytes", v |-> v]
TextPayloads == {Str("close"), Str("hello")}
BinaryPayloads == {Bytes("DEADBEEF")}
Empty == Bytes("")

\* aiohttp.WSMsgType of the messages the client iterator yields.
Msg(type, data) == [type |-> type, data |-> data]
ClientMsgs ==
    {Msg("TEXT", d) : d \in TextPayloads} \cup
    {Msg("BINARY", d) : d \in BinaryPayloads} \cup
    {Msg(ty, Empty) : ty \in {"PING", "PONG", "CLOSE", "ERROR"}}
NoMsg == Msg("NONE", Empty)

\* The messages the websockets iterator of the backend yields: str or bytes.
BackendMsgs == {Str("hello"), Bytes("DEADBEEF")}

\* ------------------------------------------------ _get_session_cookie
\* The reply to the authentication POST: the request raised
\* (RequestException), or the status of the final response (302: a redirect
\* the server gave no Location for) with or without a JSESSIONID cookie in
\* the session's jar.
AuthStatuses == {200, 302, 401, 500}
AuthReplies ==
    {[exc |-> TRUE, status |-> 0, jsessionid |-> None]} \cup
    [exc : {FALSE}, status : AuthStatuses, jsessionid : {None, "abc"}]
NoReply == [exc |-> FALSE, status |-> 0, jsessionid |-> None]

\* A raise_for_status that never raises.
RaiseForStatusNever(status) == FALSE

\* response.raise_for_status() raises HTTPError for 4xx and 5xx.
RaiseForStatus(status) == status >= 400 /\ status < 600

get_session_cookie(reply) ==
    IF reply.exc THEN None
    ELSE IF RaiseForStatus(reply.status) THEN None
    ELSE IF reply.jsessionid = None THEN None
    ELSE "JSESSIONID=" \o reply.jsessionid

\* --------------------------------------------------- websockets.connect
\* What one call of websockets.connect does: it returns a connection ("ok")
\* or raises.
ConnectResults ==
    {"ok", "InvalidURI", "InvalidHandshake", "InvalidStatus", "SecurityError",
     "SSLError", "ConnectionRefusedError", "TimeoutError"}

\* The exception classes of websockets.exceptions, aiohttp and ssl as the
\* except clauses see them.
IsInvalidHandshake(e) == e \in {"InvalidHandshake", "InvalidStatus", "SecurityError"}
IsWebSocketException(e) ==
    IsInvalidHandshake(e) \/ e \in {"InvalidURI", "ConnectionClosedError", "ConnectionClosedOK"}
IsClientError(e) == e \in {"ClientError", "ClientConnectionResetError", "WSServerHandshakeError"}
IsSSLError(e) == e = "SSLError"

\* A handler whose inner try has lost its except clause.
RetryOnNever(e) == FALSE

\* A handler whose inner except clause catches every exception.
RetryOnAnyError(e) == e # "ok"

\* except websockets.exceptions.InvalidHandshake: (the inner try)
RetryOn(e) == IsInvalidHandshake(e)

\* The except clauses of the outer try.
ConnectCaught(e) ==
    \/ e = "InvalidURI"
    \/ e = "InvalidStatus"
    \/ IsInvalidHandshake(e)
    \/ IsClientError(e) \/ IsWebSocketException(e) \/ IsSSLError(e)

\* A handler without the test of vm_uuid.
UuidRejectedNever(uuid) == FALSE

\* if uuid is None: return web.Response(status=400, ...)
UuidRejected(uuid) == uuid = None

\* The sessions the proxy keeps a record of: the proxy object holds _host,
\* _user and _password and nothing else, and the handler stores its session
\* nowhere, so no session is ever recorded.
Registry == {s \in AllSessions : FALSE}

\* What the handler returns: web.Response(status=400, text="VM UUID is
\* required"), or client_ws, a web.WebSocketResponse, whose status is 101.
ResponseStatus(r) == IF r = "Response400" THEN 400 ELSE IF r = "client_ws" THEN 101 ELSE 0
ResponseText(r) == IF r = "Response400" THEN "VM UUID is required" ELSE ""

\* A handler that does not test the cookie.
AuthFailedNever(c) == FALSE

\* if cookie is None:
AuthFailed(c) == c = None

\* ------------------------------------------------------------------- state
VARIABLES
    req,          \* the request of the session
    hpc,          \* where prism_websocket_handler is
    result,       \* what the handler returned or raised
    cookie,       \* the local variable cookie
    hlog,         \* the calls the handler made, in order
    client,       \* client_ws: "new", "open", "closed"
    backend,      \* server_ws: "none", "open", "closedOK", "closedError"
    cpc,          \* where the task client_await is
    spc,          \* where the task server_await is
    cur,          \* msg of client_await's loop
    scur,         \* message of server_await's loop
    fromClient,   \* the messages the client iterator yielded
    fromBackend,  \* the messages the backend iterator yielded
    backendCalls, \* the calls made on server_ws, in order
    clientCalls,  \* the calls made on client_ws (send_str, send_bytes, close)
    cexc,         \* the exception client_await ended with
    sexc,         \* the exception server_await ended with
    authReply,    \* what session.post answered in _get_session_cookie
    scn,          \* the scenario: "full", "auth" or "multi" for the proxy,
                  \* "file", "demo", "http" or "ws" for the modules beside it
    uri           \* the local variable uri

\* The state of wsgi_prism_websocket_proxy.py.
proxyVars == <<req, hpc, result, cookie, hlog, client, backend, cpc, spc, cur, scur,
               fromClient, fromBackend, backendCalls, clientCalls, cexc, sexc,
               authReply, scn, uri>>

\* The state of wsgi_file_handler.py: one call of wsgi_file_handler.
VARIABLES
    match_info,   \* request.match_info.get('file_path'), None when absent
    fpc,          \* where wsgi_file_handler is
    file_path,    \* the local variable file_path
    response,     \* the response returned or being streamed
    opened,       \* the absolute path of the file aiofiles.open opened
    written       \* the number of bytes written to the response so far

fileVars == <<match_info, fpc, file_path, response, opened, written>>

\* The state of demo_ws_proxy.py: one call of proxy_connection.
VARIABLES
    dpc,          \* where proxy_connection is
    server_ws,    \* the connection to the remote server: "none", "open",
                  \* "closed_ok" (closed normally) or "closed_error"
    client_ws,    \* the connection of the client, likewise
    c2s,          \* where the task client_to_server is
    s2c,          \* where the task server_to_client is
    toServer,     \* the number of messages sent on server_ws
    toClient,     \* the number of messages sent on client_ws
    dlog          \* the log lines of the three functions

demoVars == <<dpc, server_ws, client_ws, c2s, s2c, toServer, toClient, dlog>>

\* The state of wsgi_http_handler.py: one call of WSGIHttpHandler.handle.
VARIABLES
    environ,      \* the request: its Connection header and what the URL map
                  \* finds for it
    wpc,          \* where handle is
    started       \* the calls of the server's start_response, in order

httpVars == <<environ, wpc, started>>

\* The state of wsgi_web_socket.py: one call of WebSocketWSGI.__call__.
VARIABLES
    ws_environ,   \* the request headers of environ; None for an absent one
    wspc,         \* where __call__ is
    ws_started,   \* the call of start_response, NoResponse when none was made
    sock,         \* what was sent on the socket, in order
    invoked,      \* the number of calls of self.handler
    ws_closed     \* ws.close() was called

wsVars == <<ws_environ, wspc, ws_started, sock, invoked, ws_closed>>

\* The state of the modules beside the proxy.
side == <<fileVars, demoVars, httpVars, wsVars>>

\* What a step of wsgi_file_handler leaves alone.
notFile == <<proxyVars, demoVars, httpVars, wsVars>>

\* What a step of demo_ws_proxy leaves alone.
notDemo == <<proxyVars, fileVars, httpVars, wsVars>>

\* What a step of WSGIHttpHandler leaves alone.
notHttp == <<proxyVars, fileVars, demoVars, wsVars>>

\* What a step of WebSocketWSGI leaves alone.
notWs == <<proxyVars, fileVars, demoVars, httpVars>>

vars == <<req, hpc, result, cookie, hlog, client, backend, cpc, spc, cur, scur,
          fromClient, fromBackend, backendCalls, clientCalls, cexc, sexc,
          authReply, scn, uri, side>>

Ev(ev, res) == [ev |-> ev, res |-> res]
Call(op, data, ok) == [op |-> op, data |-> data, ok |-> ok]

\* What the peers of a session may do, by scenario.
\*   "full":  one session against every request and frame of the model, and
\*            every reply to the authentication POST but the final 302.
\*   "auth":  one session against every reply to the authentication POST,
\*            for requests with and without a query string.
\*   "multi": two sessions on the same WSGIPrismWebsocketProxy object and the
\*            same event loop, each a WebSocket upgrade request for a VM with
\*            one frame in each direction and a session cookie of its own; the
\*            peers of the two sessions send frames of different kinds.
ScnSessions == IF scn = "multi" THEN AllSessions ELSE SpecSessions
ScnRequests ==
    IF scn = "multi" THEN {[vm_uuid |-> ValidUuid, upgrade |-> TRUE, query |-> None]}
    ELSE IF scn = "auth" THEN Requests
    ELSE {r \in Requests : r.query = None}
ScnAuthReplies(s) ==
    IF scn = "auth" THEN AuthReplies
    ELSE IF scn = "full" THEN {r \in AuthReplies : r.status # 302}
    ELSE {[exc |-> FALSE, status |-> 200,
           jsessionid |-> IF s = 1 THEN "abc" ELSE "xyz"]}
ScnConnectResults ==
    IF scn = "multi" THEN {"ok", "InvalidHandshake"} ELSE ConnectResults
ScnClientMsgs(s) ==
    IF scn = "multi"
    THEN IF s = 1 THEN {Msg("TEXT", Str("hello"))}
         ELSE {Msg("BINARY", Bytes("DEADBEEF"))}
    ELSE ClientMsgs
ScnBackendMsgs(s) ==
    IF scn = "multi"
    THEN IF s = 1 THEN {Bytes("DEADBEEF")} ELSE {Str("hello")}
    ELSE BackendMsgs
ScnMaxClientFrames == IF scn = "multi" THEN 1 ELSE MaxClientFrames
ScnMaxBackendMsgs == IF scn = "multi" THEN 1 ELSE MaxBackendMsgs


\* ---------------------------------------------------------------------
\* wsgi_file_handler.py
\* ---------------------------------------------------------------------

StartsWith(str, prefix) ==
    Len(str) >= Len(prefix) /\ SubSeq(str, 1, Len(prefix)) = prefix

\* The characters of str from the i-th on.
From(str, i) == SubSeq(str, i, Len(str))

\* urllib.parse.unquote, for the escapes the requests of the model use.
HexChar == [h \in {"2e", "2E", "2f", "2F"} |-> IF h \in {"2e", "2E"} THEN "." ELSE "/"]

RECURSIVE unquote(_)
unquote(str) ==
    IF str = "" THEN ""
    ELSE IF Len(str) >= 3 /\ SubSeq(str, 1, 1) = "%" /\ SubSeq(str, 2, 3) \in DOMAIN HexChar
         THEN HexChar[SubSeq(str, 2, 3)] \o unquote(From(str, 4))
         ELSE SubSeq(str, 1, 1) \o unquote(From(str, 2))

\* str.split('/'), cur being the component read so far.
RECURSIVE SplitPath(_, _)
SplitPath(str, comp) ==
    IF str = "" THEN <<comp>>
    ELSE IF SubSeq(str, 1, 1) = "/" THEN <<comp>> \o SplitPath(From(str, 2), "")
         ELSE SplitPath(From(str, 2), comp \o SubSeq(str, 1, 1))

\* '/'.join(comps)
RECURSIVE JoinPath(_)
JoinPath(comps) ==
    IF comps = <<>> THEN ""
    ELSE IF Len(comps) = 1 THEN comps[1]
         ELSE comps[1] \o "/" \o JoinPath(Tail(comps))

\* os.path.join(a, b)
PathJoin(a, b) ==
    IF StartsWith(b, "/") THEN b
    ELSE IF a = "" \/ SubSeq(a, Len(a), Len(a)) = "/" THEN a \o b
         ELSE a \o "/" \o b

\* The loop of os.path.normpath over the components of a path.
RECURSIVE NormComps(_, _, _)
NormComps(comps, new_comps, initial_slashes) ==
    IF comps = <<>> THEN new_comps
    ELSE LET comp == Head(comps) IN
         IF comp \in {"", "."} THEN NormComps(Tail(comps), new_comps, initial_slashes)
         ELSE IF \/ comp # ".."
                 \/ (~initial_slashes /\ new_comps = <<>>)
                 \/ (new_comps # <<>> /\ new_comps[Len(new_comps)] = "..")
              THEN NormComps(Tail(comps), Append(new_comps, comp), initial_slashes)
              ELSE IF new_comps # <<>>
                   THEN NormComps(Tail(comps), SubSeq(new_comps, 1, Len(new_comps) - 1),
                                  initial_slashes)
                   ELSE NormComps(Tail(comps), new_comps, initial_slashes)

\* os.path.normpath(path)
normpath(path) ==
    IF path = "" THEN "."
    ELSE LET initial_slashes == StartsWith(path, "/")
             double == StartsWith(path, "//") /\ ~StartsWith(path, "///")
             joined == JoinPath(NormComps(SplitPath(path, ""), <<>>, initial_slashes))
             out == IF initial_slashes
                    THEN (IF double THEN "//" ELSE "/") \o joined
                    ELSE joined
         IN  IF out = "" THEN "." ELSE out

\* The working directory of the process.
Cwd == "/app"

\* os.path.abspath(path)
abspath(path) ==
    normpath(IF StartsWith(path, "/") THEN path ELSE PathJoin(Cwd, path))

\* The file system: the directories, and the regular files with their sizes.
Dirs == {"/", "/app", "/app/static", "/app/static/js", "/app/static_secret", "/app/certs", "/etc"}
Files == [f \in {"/app/static/index.html", "/app/static/js/vnc.js",
                 "/app/static_secret/key", "/app/certs/server.key", "/etc/passwd"}
          |-> IF f = "/app/static/index.html" THEN 0
              ELSE IF f = "/app/static/js/vnc.js" THEN 2500
              ELSE 1500]

\* The directory above the directory dir.
Parent(dir) ==
    LET comps == SplitPath(dir, "")
        up == JoinPath(SubSeq(comps, 1, Len(comps) - 1))
    IN  IF up = "" THEN "/" ELSE up

\* The file or directory the operating system finds for a path, walking its
\* components from the directory at; None when a component does not exist.
RECURSIVE Walk(_, _)
Walk(at, comps) ==
    IF comps = <<>> THEN at
    ELSE IF at \notin Dirs THEN None
    ELSE LET comp == Head(comps) IN
         IF comp \in {"", "."} THEN Walk(at, Tail(comps))
         ELSE IF comp = ".." THEN Walk(Parent(at), Tail(comps))
         ELSE LET child == PathJoin(at, comp) IN
              IF child \in Dirs \/ child \in DOMAIN Files
              THEN Walk(child, Tail(comps))
              ELSE None

Resolve(path) ==
    IF path = "" THEN None
    ELSE Walk(IF StartsWith(path, "/") THEN "/" ELSE Cwd, SplitPath(path, ""))

\* os.path.isfile(path)
isfile(path) == Resolve(path) \in DOMAIN Files

\* The check of line 86: requested_path.startswith(base_path).
PathAllowed(requested_path, base_path) == StartsWith(requested_path, base_path)

\* The values of match_info['file_path'] of the model; the router has
\* decoded them once.
MatchInfos ==
    {None, "", "index.html", "js/vnc.js", "js/missing.js", "js/../index.html",
     "nodir/../index.html", "../static/index.html",
     "../certs/server.key", "%2e%2e/certs/server.key",
     "../static_secret/key", "%2e%2e/static_secret/key", "%2E%2E%2Fstatic_secret%2Fkey",
     "../static_secret/nokey", "/etc/passwd", "%2fetc%2fpasswd", "../../etc/passwd",
     "js", "js/./vnc.js", "js//vnc.js", "%2e/index.html", "index.html/", "..",
     "../static", "../static_secret", "../static_secret/../static/js/vnc.js"}

NoResponse == [status |-> 0, text |-> None]
Response(status, text) == [status |-> status, text |-> text]

\* min(max(file_size // 100, 1024), 8192)
ChunkSize(file_size) ==
    LET m == IF file_size \div 100 > 1024 THEN file_size \div 100 ELSE 1024
    IN  IF m < 8192 THEN m ELSE 8192

\* Before wsgi_file_handler is called.
FileInit ==
    /\ match_info \in (IF scn = "file" THEN MatchInfos ELSE {None})
    /\ fpc = "start"
    /\ file_path = None
    /\ response = NoResponse
    /\ opened = None
    /\ written = 0

\* ---------------------------------------------------------------------
\* demo_ws_proxy.py
\* ---------------------------------------------------------------------

\* The most messages a peer of the demo proxy sends.
MaxDemoMsgs == 2

\* What websockets.connect(url) does at line 90.
DemoConnectResults == {"ok", "InvalidURI", "InvalidHandshake", "ConnectionClosedError", "OSError"}

\* The log line of the except clause of lines 98-105 that catches e.
DemoConnectLog(e) ==
    IF e = "InvalidURI" THEN "Invalid URI"
    ELSE IF e = "InvalidHandshake" THEN "Invalid Handshake"
    ELSE IF e = "ConnectionClosedError" THEN "Connection closed with error"
    ELSE "Unexpected error"

\* What the iterator or send of a connection in state ws raises.
ClosedException(ws) ==
    IF ws = "closed_ok" THEN "ConnectionClosedOK" ELSE "ConnectionClosedError"

\* The except clauses of lines 135-138 and 169-172: ConnectionClosedOK and
\* every other Exception.
LoopCaught(e) == TRUE

\* A with statement that leaves server_ws as it is.
ExitedKeepsOpen(ws) == ws

\* The end of `async with websockets.connect(url) as server_ws` (line 90):
\* server_ws is closed when the block is left.
Exited(ws) == IF ws = "open" THEN "closed_ok" ELSE ws

\* Before proxy_connection is called.
DemoInit ==
    /\ dpc = "start"
    /\ server_ws = "none"
    /\ client_ws = "open"
    /\ c2s = "none"
    /\ s2c = "none"
    /\ toServer = 0
    /\ toClient = 0
    /\ dlog = <<>>

\* ---------------------------------------------------------------------
\* wsgi_http_handler.py
\* ---------------------------------------------------------------------

\* The most calls of start_response an endpoint makes.
MaxResponses == 2

UpperCase == "ABCDEFGHIJKLMNOPQRSTUVWXYZ"
LowerCase == "abcdefghijklmnopqrstuvwxyz"

\* str.lower()
RECURSIVE lower(_)
lower(str) ==
    IF str = "" THEN ""
    ELSE LET c == SubSeq(str, 1, 1)
             up == {i \in 1..26 : SubSeq(UpperCase, i, i) = c}
         IN  (IF up = {} THEN c ELSE LET i == CHOOSE i \in up : TRUE
                                     IN  SubSeq(LowerCase, i, i))
             \o lower(From(str, 2))

\* The characters \s matches.
WhiteSpace == {" ", "\t"}

\* str without its leading white space.
RECURSIVE lstrip(_)
lstrip(str) ==
    IF str # "" /\ SubSeq(str, 1, 1) \in WhiteSpace THEN lstrip(From(str, 2)) ELSE str

\* str without its trailing white space.
RECURSIVE rstrip(_)
rstrip(str) ==
    IF str # "" /\ SubSeq(str, Len(str), Len(str)) \in WhiteSpace
    THEN rstrip(SubSeq(str, 1, Len(str) - 1))
    ELSE str

\* str.strip()
strip(str) == lstrip(rstrip(str))

\* re.split(r",\s*", str), piece being the piece read so far: a piece ends at
\* a comma, and the white space after the comma belongs to the separator.
RECURSIVE SplitCommaSpace(_, _)
SplitCommaSpace(str, piece) ==
    IF str = "" THEN <<piece>>
    ELSE IF SubSeq(str, 1, 1) = ","
         THEN <<piece>> \o SplitCommaSpace(lstrip(From(str, 2)), "")
         ELSE SplitCommaSpace(From(str, 2), piece \o SubSeq(str, 1, 1))

\* re.search(sub, str) for a pattern of plain characters.
Search(sub, str) ==
    \E i \in 1..(Len(str) - Len(sub) + 1) : SubSeq(str, i, i + Len(sub) - 1) = sub

Header(name, value) == <<name, value>>

\* The value a dict built from the pairs of headers holds for name: that of
\* the last pair with this name.
RECURSIVE DictGet(_, _)
DictGet(headers, name) ==
    IF headers = <<>> THEN None
    ELSE LET h == headers[Len(headers)] IN
         IF h[1] = name THEN h[2]
         ELSE DictGet(SubSeq(headers, 1, Len(headers) - 1), name)

\* The items of the dict built from the pairs of headers, one for each name,
\* in the order the names first appear.
RECURSIVE DictItems(_, _)
DictItems(headers, all) ==
    IF headers = <<>> THEN <<>>
    ELSE LET name == headers[1][1]
             rest == SelectSeq(Tail(headers), LAMBDA h : h[1] # name)
         IN  <<Header(name, DictGet(all, name))>> \o DictItems(rest, all)

\* The pairs (header_name.lower(), header_value.lower()) of line 98.
RECURSIVE LowerHeaders(_)
LowerHeaders(headers) ==
    IF headers = <<>> THEN <<>>
    ELSE <<Header(lower(headers[1][1]), lower(headers[1][2]))>> \o LowerHeaders(Tail(headers))

\* Lines 92-97: "upgrade" is one of the lower-cased pieces of the request's
\* Connection header.
UpgradeRequested(connection) ==
    \E i \in DOMAIN SplitCommaSpace(connection, "") :
        lower(SplitCommaSpace(connection, "")[i]) = "upgrade"

\* Lines 100-103: the Connection header of the response is given the value
\* "close", or ", close" is added to a value without "close".
WithClose(resp_headers) ==
    IF DictGet(resp_headers, "connection") = None
    THEN Append(resp_headers, Header("connection", "close"))
    ELSE IF ~Search("close", DictGet(resp_headers, "connection"))
         THEN [i \in DOMAIN resp_headers |->
                  IF resp_headers[i][1] = "connection"
                  THEN Header("connection", resp_headers[i][2] \o ", close")
                  ELSE resp_headers[i]]
         ELSE resp_headers

\* Lines 91-107: the headers start_response_wrapper passes to start_response.
start_response_wrapper(connection, headers) ==
    IF UpgradeRequested(connection)
    THEN LET lowered == LowerHeaders(headers)
         IN  WithClose(DictItems(lowered, lowered))
    ELSE headers

\* The Connection headers of the requests of the model; "" when absent.
HttpConnections ==
    {"", "keep-alive", "Upgrade", "upgrade", "keep-alive, Upgrade", "keep-alive,UPGRADE",
     "Upgrade,  keep-alive", "Upgrade , keep-alive", "close"}

\* What adapter.match() finds: an endpoint, or an HTTPException.
HttpRoutes == {"endpoint", "NotFound"}

Environs == [HTTP_CONNECTION : HttpConnections, route : HttpRoutes]

\* The header lists the endpoints of the model pass to start_response.
EndpointHeaders ==
    {<<>>,
     <<Header("Content-type", "text/plain")>>,
     <<Header("Connection", "keep-alive")>>,
     <<Header("Connection", "Close")>>,
     <<Header("CONNECTION", "Upgrade"), Header("Upgrade", "websocket")>>,
     <<Header("Connection", "close"), Header("connection", "keep-alive")>>}

StartResponse(status, headers) == [status |-> status, headers |-> headers]

\* Before handle is called.
HttpInit ==
    /\ environ \in (IF scn = "http" THEN Environs
                    ELSE {[HTTP_CONNECTION |-> "", route |-> "endpoint"]})
    /\ wpc = "start"
    /\ started = <<>>

\* ---------------------------------------------------------------------
\* wsgi_web_socket.py
\* ---------------------------------------------------------------------

SUPPORTED_VERSIONS == {"13", "8", "7"}

Base64Alphabet == UpperCase \o LowerCase \o "0123456789+/"

IsBase64Char(c) == \E i \in 1..Len(Base64Alphabet) : SubSeq(Base64Alphabet, i, i) = c

\* The next character of str that is of the alphabet or the pad character;
\* None when there is none.
RECURSIVE NextValid(_)
NextValid(str) ==
    IF str = "" THEN None
    ELSE IF IsBase64Char(SubSeq(str, 1, 1)) \/ SubSeq(str, 1, 1) = "="
         THEN SubSeq(str, 1, 1)
         ELSE NextValid(From(str, 2))

\* The decoder of base64.b64decode: the number of bytes it yields for str,
\* or -1 where it raises "Incorrect padding". Characters outside the
\* alphabet are skipped; a pad character is skipped unless it ends a group
\* of three characters or, with the next pad character, one of two.
RECURSIVE A2bBase64(_, _, _, _)
A2bBase64(str, quad_pos, leftbits, bytes) ==
    IF str = "" THEN (IF leftbits # 0 THEN -1 ELSE bytes)
    ELSE LET c == SubSeq(str, 1, 1) IN
         IF c = "="
         THEN IF quad_pos < 2 \/ (quad_pos = 2 /\ NextValid(From(str, 2)) # "=")
              THEN A2bBase64(From(str, 2), quad_pos, leftbits, bytes)
              ELSE bytes
         ELSE IF ~IsBase64Char(c)
              THEN A2bBase64(From(str, 2), quad_pos, leftbits, bytes)
              ELSE IF leftbits + 6 >= 8
                   THEN A2bBase64(From(str, 2), (quad_pos + 1) % 4, leftbits + 6 - 8, bytes + 1)
                   ELSE A2bBase64(From(str, 2), (quad_pos + 1) % 4, leftbits + 6, bytes)

\* len(base64.b64decode(key)), -1 where b64decode raises TypeError.
B64DecodedLen(key) == A2bBase64(key, 0, 0, 0)

\* A length check that accepts every key.
KeyLenOkAlways(key_len) == TRUE

\* Line 106: the decoded key has 16 bytes.
KeyLenOk(key_len) == key_len = 16

\* The request headers of the model.
WsConnections == {None, "keep-alive", "Upgrade", "keep-alive, upgrade", "Upgrade , keep-alive"}
WsUpgrades == {None, "websocket", "WebSocket", "h2c"}
WsVersions == {None, "13", "8", "12"}
WsKeys ==
    {None, "", "  ",
     "dGhlIHNhbXBsZSBub25jZQ==",        \* 16 bytes
     " dGhlIHNhbXBsZSBub25jZQ== ",      \* the same between spaces
     "dGhl!IHNhbXBsZSBub25jZQ==",       \* the same with a character outside the alphabet
     "dGhlIHNhbXBsZSBub25jZQ",          \* its padding missing
     "QUJDR",                           \* five characters
     "QUJD",                            \* 3 bytes
     "dGhlIHNhbXBsZSBub25jZQAA",        \* 18 bytes
     "!!!!"}                            \* no character of the alphabet

WsEnvirons ==
    [HTTP_CONNECTION : WsConnections, HTTP_UPGRADE : WsUpgrades,
     HTTP_SEC_WEBSOCKET_VERSION : WsVersions, HTTP_SEC_WEBSOCKET_KEY : WsKeys]

\* environ.get(name, '')
Get(env, name) == IF env[name] = None THEN "" ELSE env[name]

\* Lines 68-72: the test of the Connection and Upgrade headers.
UpgradeToWebSocket(env) ==
    /\ \E i \in DOMAIN SplitCommaSpace(lower(Get(env, "HTTP_CONNECTION")), "") :
           SplitCommaSpace(lower(Get(env, "HTTP_CONNECTION")), "")[i] = "upgrade"
    /\ lower(Get(env, "HTTP_UPGRADE")) = "websocket"

\* How the handler ends: it returns, or raises socket.error with an errno of
\* ACCEPTABLE_CLIENT_ERRORS or with another one.
HandlerOutcomes == {"returns", "ECONNRESET", "EPIPE", "ETIMEDOUT"}
ACCEPTABLE_CLIENT_ERRORS == {"ECONNRESET", "EPIPE"}

\* Before __call__ is called.
WsInit ==
    /\ ws_environ \in (IF scn = "ws" THEN WsEnvirons
                       ELSE {[HTTP_CONNECTION |-> None, HTTP_UPGRADE |-> None,
                              HTTP_SEC_WEBSOCKET_VERSION |-> None,
                              HTTP_SEC_WEBSOCKET_KEY |-> None]})
    /\ wspc = "start"
    /\ ws_started = NoResponse
    /\ sock = <<>>
    /\ invoked = 0
    /\ ws_closed = FALSE

\* No handler has been called yet.
InitSessions ==
    /\ req = [s \in AllSessions |-> NoRequest]
    /\ hpc = [s \in AllSessions |-> "idle"]
    /\ result = [s \in AllSessions |-> "none"]
    /\ cookie = [s \in AllSessions |-> None]
    /\ hlog = [s \in AllSessions |-> <<>>]
    /\ client = [s \in AllSessions |-> "new"]
    /\ backend = [s \in AllSessions |-> "none"]
    /\ cpc = [s \in AllSessions |-> "none"]
    /\ spc = [s \in AllSessions |-> "none"]
    /\ cur = [s \in AllSessions |-> NoMsg]
    /\ scur = [s \in AllSessions |-> Empty]
    /\ fromClient = [s \in AllSessions |-> <<>>]
    /\ fromBackend = [s \in AllSessions |-> <<>>]
    /\ backendCalls = [s \in AllSessions |-> <<>>]
    /\ clientCalls = [s \in AllSessions |-> <<>>]
    /\ cexc = [s \in AllSessions |-> None]
    /\ sexc = [s \in AllSessions |-> None]
    /\ authReply = [s \in AllSessions |-> NoReply]
    /\ uri = [s \in AllSessions |-> None]
    /\ FileInit
    /\ DemoInit
    /\ HttpInit
    /\ WsInit

Init == scn = "full" /\ InitSessions

InitMulti == scn = "multi" /\ InitSessions

InitAuth == scn = "auth" /\ InitSessions

\* _get_session_cookie calls requests (session.post), which does not yield
\* to the event loop: while one handler is inside it, no other coroutine of
\* the loop runs.
LoopFree(s) == \A t \in AllSessions \ {s} : hpc[t] # "auth"

\* ------------------------------------------------ prism_websocket_handler
\* The router calls the handler with a request.
Request(s) ==
    /\ s \in ScnSessions
    /\ LoopFree(s)
    /\ hpc[s] = "idle"
    /\ \E r \in ScnRequests :
        req' = [req EXCEPT ![s] = r]
    /\ hpc' = [hpc EXCEPT ![s] = "entered"]
    /\ UNCHANGED <<result, cookie, hlog, client, backend, cpc, spc, cur, scur,
                   fromClient, fromBackend, backendCalls, clientCalls, cexc, sexc, authReply, scn, uri, side>>

\* From the entry to the call of _get_session_cookie: the check of vm_uuid,
\* the uri and client_ws = web.WebSocketResponse(...).
HandlerEnter(s) ==
    /\ LoopFree(s)
    /\ hpc[s] = "entered"
    /\ IF UuidRejected(req[s].vm_uuid)
       THEN /\ hpc' = [hpc EXCEPT ![s] = "returned"]
            /\ result' = [result EXCEPT ![s] = "Response400"]
            /\ UNCHANGED uri
       ELSE /\ hpc' = [hpc EXCEPT ![s] = "auth"]
            /\ uri' = [uri EXCEPT ![s] = BackendUri(req[s])]
            /\ UNCHANGED result
    /\ UNCHANGED <<req, cookie, hlog, client, backend, cpc, spc, cur, scur,
                   fromClient, fromBackend, backendCalls, clientCalls, cexc, sexc, authReply, scn, side>>

\* cookie = self._get_session_cookie() returns, and the test of the cookie.
AuthReturn(s) ==
    /\ hpc[s] = "auth"
    /\ \E reply \in ScnAuthReplies(s) :
        /\ authReply' = [authReply EXCEPT ![s] = reply]
        /\ cookie' = [cookie EXCEPT ![s] = get_session_cookie(reply)]
    /\ hlog' = [hlog EXCEPT ![s] = Append(@, Ev("auth", cookie'[s]))]
    /\ hpc' = [hpc EXCEPT ![s] =
                  IF AuthFailed(cookie'[s]) THEN "fail_prepare" ELSE "connect1"]
    /\ UNCHANGED <<req, result, client, backend, cpc, spc, cur, scur,
                   fromClient, fromBackend, backendCalls, clientCalls, cexc, sexc, scn, uri, side>>

\* server_ws = await websockets.connect(...) has returned: the two tasks are
\* created and the handler awaits client_task.
StartRelay(s) ==
    /\ backend' = [backend EXCEPT ![s] = "open"]
    /\ cpc' = [cpc EXCEPT ![s] = "prepare"]
    /\ spc' = [spc EXCEPT ![s] = "prepare"]
    /\ hpc' = [hpc EXCEPT ![s] = "await_client"]
    /\ UNCHANGED result

\* websockets.connect raised e in the outer try.
ConnectFailed(s, e) ==
    /\ UNCHANGED <<backend, cpc, spc>>
    /\ IF ConnectCaught(e)
       THEN /\ hpc' = [hpc EXCEPT ![s] = "fail_prepare"]
            /\ UNCHANGED result
       ELSE /\ hpc' = [hpc EXCEPT ![s] = "raised"]
            /\ result' = [result EXCEPT ![s] = e]

\* The first await websockets.connect(...).
Connect1(s) ==
    /\ LoopFree(s)
    /\ hpc[s] = "connect1"
    /\ \E r \in ScnConnectResults :
        /\ hlog' = [hlog EXCEPT ![s] = Append(@, Ev("connect", r))]
        /\ IF r = "ok" THEN StartRelay(s)
           ELSE IF RetryOn(r)
           THEN /\ hpc' = [hpc EXCEPT ![s] = "sleep"]
                /\ UNCHANGED <<result, backend, cpc, spc>>
           ELSE ConnectFailed(s, r)
    /\ UNCHANGED <<req, cookie, client, cur, scur,
                   fromClient, fromBackend, backendCalls, clientCalls, cexc, sexc, authReply, scn, uri, side>>

\* await asyncio.sleep(1)
RetrySleep(s) ==
    /\ LoopFree(s)
    /\ hpc[s] = "sleep"
    /\ hlog' = [hlog EXCEPT ![s] = Append(@, Ev("sleep", "1"))]
    /\ hpc' = [hpc EXCEPT ![s] = "connect2"]
    /\ UNCHANGED <<req, result, cookie, client, backend, cpc, spc, cur, scur,
                   fromClient, fromBackend, backendCalls, clientCalls, cexc, sexc, authReply, scn, uri, side>>

\* The second await websockets.connect(...), in the except clause.
Connect2(s) ==
    /\ LoopFree(s)
    /\ hpc[s] = "connect2"
    /\ \E r \in ScnConnectResults :
        /\ hlog' = [hlog EXCEPT ![s] = Append(@, Ev("connect", r))]
        /\ IF r = "ok" THEN StartRelay(s) ELSE ConnectFailed(s, r)
    /\ UNCHANGED <<req, cookie, client, cur, scur,
                   fromClient, fromBackend, backendCalls, clientCalls, cexc, sexc, authReply, scn, uri, side>>

\* A prepare that accepts every request.
PrepareRaisesNever(r) == FALSE

\* client_ws.prepare(request): the handshake with the client.  It raises
\* HTTPBadRequest when the request is no WebSocket upgrade, and returns at
\* once when the response is already prepared.
PrepareRaises(r) == ~r.upgrade
\* A prepare that leaves client_ws as it was.
PreparedNoop(c) == c

Prepared(c) == IF c = "new" THEN "open" ELSE c

\* await client_ws.prepare(request) on the failure paths of the handler.
FailPrepare(s) ==
    /\ LoopFree(s)
    /\ hpc[s] = "fail_prepare"
    /\ IF PrepareRaises(req[s])
       THEN /\ hpc' = [hpc EXCEPT ![s] = "raised"]
            /\ result' = [result EXCEPT ![s] = "HTTPBadRequest"]
            /\ UNCHANGED client
       ELSE /\ client' = [client EXCEPT ![s] = Prepared(@)]
            /\ hpc' = [hpc EXCEPT ![s] = "fail_close"]
            /\ UNCHANGED result
    /\ UNCHANGED <<req, cookie, hlog, backend, cpc, spc, cur, scur,
                   fromClient, fromBackend, backendCalls, clientCalls, cexc, sexc, authReply, scn, uri, side>>

\* await client_ws.close(); return client_ws
FailClose(s) ==
    /\ LoopFree(s)
    /\ hpc[s] = "fail_close"
    /\ client' = [client EXCEPT ![s] = "closed"]
    /\ clientCalls' = [clientCalls EXCEPT ![s] = Append(@, Call("close", Empty, TRUE))]
    /\ hpc' = [hpc EXCEPT ![s] = "returned"]
    /\ result' = [result EXCEPT ![s] = "client_ws"]
    /\ UNCHANGED <<req, cookie, hlog, backend, cpc, spc, cur, scur,
                   fromClient, fromBackend, backendCalls, cexc, sexc, authReply, scn, uri, side>>

\* A handler that does not wait for the task it awaits.
TaskEndedAlways(pc) == TRUE

\* await task resumes the handler when the task has returned or raised.
TaskEnded(pc) == pc \in {"done", "raised"}

\* await client_task
AwaitClientTask(s) ==
    /\ LoopFree(s)
    /\ hpc[s] = "await_client"
    /\ TaskEnded(cpc[s])
    /\ IF cpc[s] = "raised"
       THEN /\ hpc' = [hpc EXCEPT ![s] = "raised"]
            /\ result' = [result EXCEPT ![s] = cexc[s]]
       ELSE /\ hpc' = [hpc EXCEPT ![s] = "await_server"]
            /\ UNCHANGED result
    /\ UNCHANGED <<req, cookie, hlog, client, backend, cpc, spc, cur, scur,
                   fromClient, fromBackend, backendCalls, clientCalls, cexc, sexc, authReply, scn, uri, side>>

\* await server_task; return client_ws
AwaitServerTask(s) ==
    /\ LoopFree(s)
    /\ hpc[s] = "await_server"
    /\ TaskEnded(spc[s])
    /\ IF spc[s] = "raised"
       THEN /\ hpc' = [hpc EXCEPT ![s] = "raised"]
            /\ result' = [result EXCEPT ![s] = sexc[s]]
       ELSE /\ hpc' = [hpc EXCEPT ![s] = "returned"]
            /\ result' = [result EXCEPT ![s] = "client_ws"]
    /\ UNCHANGED <<req, cookie, hlog, client, backend, cpc, spc, cur, scur,
                   fromClient, fromBackend, backendCalls, clientCalls, cexc, sexc, authReply, scn, uri, side>>

\* A proxy that keeps server_ws in an attribute of the proxy object, which
\* all sessions share.
ServerWsShared(s) == 1

\* The connections a session's coroutines call: client_ws and server_ws are
\* local variables of the call of prism_websocket_handler, passed as
\* arguments to its two tasks, so they are the connections of that session.
ServerWs(s) == s
ClientWs(s) == s

\* ------------------------------------------------------------ client_await
\* The branch of the loop body taken for msg: the call it makes, its argument
\* and whether the call stands in a try whose except clause breaks the loop.
Dispatch(call, arg, guarded) == [call |-> call, arg |-> arg, guarded |-> guarded]

\* A loop body that forwards every TEXT payload, "close" included.
ClientDispatchForwardsClose(msg) ==
    IF msg.type = "TEXT" THEN Dispatch("server.send", Str(msg.data.v \o "/answer"), FALSE)
    ELSE IF msg.type = "BINARY" THEN Dispatch("server.send", msg.data, TRUE)
    ELSE IF msg.type = "PING" THEN Dispatch("server.ping", Empty, FALSE)
    ELSE IF msg.type = "PONG" THEN Dispatch("server.pong", Empty, FALSE)
    ELSE IF msg.type = "CLOSE" THEN Dispatch("client.close", Empty, FALSE)
    ELSE Dispatch("none", Empty, FALSE)

\* A loop body that ignores a CLOSE message.
ClientDispatchIgnoresClose(msg) ==
    IF msg.type = "TEXT"
    THEN IF msg.data = Str("close")
         THEN Dispatch("client.close", Empty, FALSE)
         ELSE Dispatch("server.send", Str(msg.data.v \o "/answer"), FALSE)
    ELSE IF msg.type = "BINARY" THEN Dispatch("server.send", msg.data, TRUE)
    ELSE IF msg.type = "PING" THEN Dispatch("server.ping", Empty, FALSE)
    ELSE IF msg.type = "PONG" THEN Dispatch("server.pong", Empty, FALSE)
    ELSE Dispatch("none", Empty, FALSE)

\* A loop body that answers a PING by a send of data and drops a PONG.
ClientDispatchPingAsData(msg) ==
    IF msg.type = "TEXT"
    THEN IF msg.data = Str("close")
         THEN Dispatch("client.close", Empty, FALSE)
         ELSE Dispatch("server.send", Str(msg.data.v \o "/answer"), FALSE)
    ELSE IF msg.type = "BINARY" THEN Dispatch("server.send", msg.data, TRUE)
    ELSE IF msg.type = "PING" THEN Dispatch("server.send", msg.data, FALSE)
    ELSE IF msg.type = "CLOSE" THEN Dispatch("client.close", Empty, FALSE)
    ELSE Dispatch("none", Empty, FALSE)

\* A loop body that decodes a BINARY payload and sends it as text.
ClientDispatchBinaryAsText(msg) ==
    IF msg.type = "TEXT"
    THEN IF msg.data = Str("close")
         THEN Dispatch("client.close", Empty, FALSE)
         ELSE Dispatch("server.send", Str(msg.data.v \o "/answer"), FALSE)
    ELSE IF msg.type = "BINARY" THEN Dispatch("server.send", Str(msg.data.v), TRUE)
    ELSE IF msg.type = "PING" THEN Dispatch("server.ping", Empty, FALSE)
    ELSE IF msg.type = "PONG" THEN Dispatch("server.pong", Empty, FALSE)
    ELSE IF msg.type = "CLOSE" THEN Dispatch("client.close", Empty, FALSE)
    ELSE Dispatch("none", Empty, FALSE)

ClientDispatch(msg) ==
    IF msg.type = "TEXT"
    THEN IF msg.data = Str("close")
         THEN Dispatch("client.close", Empty, FALSE)
         ELSE Dispatch("server.send", Str(msg.data.v \o "/answer"), FALSE)
    ELSE IF msg.type = "BINARY" THEN Dispatch("server.send", msg.data, TRUE)
    ELSE IF msg.type = "PING" THEN Dispatch("server.ping", Empty, FALSE)
    ELSE IF msg.type = "PONG" THEN Dispatch("server.pong", Empty, FALSE)
    ELSE IF msg.type = "CLOSE" THEN Dispatch("client.close", Empty, FALSE)
    ELSE Dispatch("none", Empty, FALSE)

\* A loop that starts a send without awaiting it: a later send can overtake.
SentUnawaited(log, call) == <<call>> \o log

\* await server_ws.send(...), await client_ws.send_str(...): the call has
\* ended before the loop takes its next message.
Sent(log, call) == Append(log, call)

\* A BINARY branch without its try.
ClientSendCaughtNever(e) == FALSE

\* except (aiohttp.ClientError, websockets.WebSocketException): break
ClientSendCaught(e) == IsClientError(e) \/ IsWebSocketException(e)

\* What a call on a server_ws that is no longer open raises.
BackendSendError(b) == IF b = "closedOK" THEN "ConnectionClosedOK" ELSE "ConnectionClosedError"

\* A client loop that also ends when server_ws is no longer open.
ClientIterEndsWithBackend(c, b) == c = "closed" \/ b # "open"

\* An iterator of client_ws that goes on after client_ws was closed.
ClientIterEndsNever(c, b) == FALSE

\* When `async for msg in client_ws` ends: client_ws (in state c) is closed,
\* whatever the state b of server_ws.
ClientIterEnds(c, b) == c = "closed"

\* await client_ws.prepare(request) in client_await
ClientPrepare(s) ==
    /\ LoopFree(s)
    /\ cpc[s] = "prepare"
    /\ IF PrepareRaises(req[s])
       THEN /\ cpc' = [cpc EXCEPT ![s] = "raised"]
            /\ cexc' = [cexc EXCEPT ![s] = "HTTPBadRequest"]
            /\ UNCHANGED client
       ELSE /\ client' = [client EXCEPT ![s] = Prepared(@)]
            /\ cpc' = [cpc EXCEPT ![s] = "recv"]
            /\ UNCHANGED cexc
    /\ UNCHANGED <<req, hpc, result, cookie, hlog, backend, spc, cur, scur,
                   fromClient, fromBackend, backendCalls, clientCalls, sexc, authReply, scn, uri, side>>

\* async for msg in client_ws: the iterator ends when client_ws is closed,
\* and otherwise yields the next message of the client peer.  An ERROR message
\* is yielded by a client_ws that the library has closed.
ClientRecv(s) ==
    /\ LoopFree(s)
    /\ cpc[s] = "recv"
    /\ IF ClientIterEnds(client[s], backend[s])
       THEN /\ cpc' = [cpc EXCEPT ![s] = "done"]
            /\ UNCHANGED <<cur, fromClient, client>>
       ELSE /\ Len(fromClient[s]) < ScnMaxClientFrames
            /\ \E m \in ScnClientMsgs(s) :
                /\ cur' = [cur EXCEPT ![s] = m]
                /\ fromClient' = [fromClient EXCEPT ![s] = Append(@, m)]
                /\ client' = [client EXCEPT ![s] =
                                 IF m.type = "ERROR" THEN "closed" ELSE @]
            /\ cpc' = [cpc EXCEPT ![s] = "handle"]
    /\ UNCHANGED <<req, hpc, result, cookie, hlog, backend, spc, scur,
                   fromBackend, backendCalls, clientCalls, cexc, sexc, authReply, scn, uri, side>>

\* The body of the loop of client_await for msg.
ClientHandle(s) ==
    /\ LoopFree(s)
    /\ cpc[s] = "handle"
    /\ LET d == ClientDispatch(cur[s])
           ok == backend[ServerWs(s)] = "open"
           e == BackendSendError(backend[ServerWs(s)])
       IN  IF d.call = "client.close"
           THEN /\ client' = [client EXCEPT ![ClientWs(s)] = "closed"]
                /\ clientCalls' = [clientCalls EXCEPT ![ClientWs(s)] =
                                      Append(@, Call("close", Empty, TRUE))]
                /\ cpc' = [cpc EXCEPT ![s] = "recv"]
                /\ UNCHANGED <<backendCalls, cexc>>
           ELSE IF d.call = "none"
           THEN /\ cpc' = [cpc EXCEPT ![s] = "recv"]
                /\ UNCHANGED <<client, clientCalls, backendCalls, cexc>>
           ELSE /\ backendCalls' = [backendCalls EXCEPT ![ServerWs(s)] =
                                       Sent(@, Call(d.call, d.arg, ok))]
                /\ UNCHANGED <<client, clientCalls>>
                /\ IF ok
                   THEN /\ cpc' = [cpc EXCEPT ![s] = "recv"]
                        /\ UNCHANGED cexc
                   ELSE IF d.guarded /\ ClientSendCaught(e)
                   THEN /\ cpc' = [cpc EXCEPT ![s] = "done"]
                        /\ UNCHANGED cexc
                   ELSE /\ cpc' = [cpc EXCEPT ![s] = "raised"]
                        /\ cexc' = [cexc EXCEPT ![s] = e]
    /\ UNCHANGED <<req, hpc, result, cookie, hlog, backend, spc, cur, scur,
                   fromClient, fromBackend, sexc, authReply, scn, uri, side>>

\* ------------------------------------------------------------ server_await
\* A loop body that sends every message with send_bytes.
ServerDispatchAllBytes(message) == Dispatch("send_bytes", message, TRUE)

\* if isinstance(message, str): send_str(message) else: send_bytes(message)
ServerDispatch(message) ==
    IF message.t = "str"
    THEN Dispatch("send_str", message, TRUE)
    ELSE Dispatch("send_bytes", message, TRUE)

\* except (aiohttp.WSServerHandshakeError, aiohttp.ClientError,
\*         websockets.WebSocketException): break
ServerSendCaught(e) == IsClientError(e) \/ IsWebSocketException(e)

\* What send_str and send_bytes raise on a client_ws that is closed: the
\* class depends on the aiohttp release.
ClientSendErrors == {"ClientConnectionResetError", "ConnectionResetError"}

\* await client_ws.prepare(request) in server_await
ServerPrepare(s) ==
    /\ LoopFree(s)
    /\ spc[s] = "prepare"
    /\ IF PrepareRaises(req[s])
       THEN /\ spc' = [spc EXCEPT ![s] = "raised"]
            /\ sexc' = [sexc EXCEPT ![s] = "HTTPBadRequest"]
            /\ UNCHANGED client
       ELSE /\ client' = [client EXCEPT ![s] = Prepared(@)]
            /\ spc' = [spc EXCEPT ![s] = "recv"]
            /\ UNCHANGED sexc
    /\ UNCHANGED <<req, hpc, result, cookie, hlog, backend, cpc, cur, scur,
                   fromClient, fromBackend, backendCalls, clientCalls, cexc, authReply, scn, uri, side>>

\* async for message in server_ws: the iterator ends when the connection was
\* closed normally, raises ConnectionClosedError when it was closed with an
\* error, and otherwise yields the next message of the backend.
ServerRecv(s) ==
    /\ LoopFree(s)
    /\ spc[s] = "recv"
    /\ IF backend[s] = "closedOK"
       THEN /\ spc' = [spc EXCEPT ![s] = "done"]
            /\ UNCHANGED <<scur, fromBackend, sexc>>
       ELSE IF backend[s] = "closedError"
       THEN /\ spc' = [spc EXCEPT ![s] = "raised"]
            /\ sexc' = [sexc EXCEPT ![s] = "ConnectionClosedError"]
            /\ UNCHANGED <<scur, fromBackend>>
       ELSE /\ Len(fromBackend[s]) < ScnMaxBackendMsgs
            /\ \E m \in ScnBackendMsgs(s) :
                /\ scur' = [scur EXCEPT ![s] = m]
                /\ fromBackend' = [fromBackend EXCEPT ![s] = Append(@, m)]
            /\ spc' = [spc EXCEPT ![s] = "handle"]
            /\ UNCHANGED sexc
    /\ UNCHANGED <<req, hpc, result, cookie, hlog, client, backend, cpc, cur,
                   fromClient, backendCalls, clientCalls, cexc, authReply, scn, uri, side>>

\* The body of the loop of server_await for message.
ServerHandle(s) ==
    /\ LoopFree(s)
    /\ spc[s] = "handle"
    /\ LET d == ServerDispatch(scur[s])
           ok == client[ClientWs(s)] = "open"
       IN  /\ clientCalls' = [clientCalls EXCEPT ![ClientWs(s)] =
                                 Sent(@, Call(d.call, d.arg, ok))]
           /\ IF ok
              THEN /\ spc' = [spc EXCEPT ![s] = "recv"]
                   /\ UNCHANGED sexc
              ELSE \E e \in ClientSendErrors :
                   IF d.guarded /\ ServerSendCaught(e)
                   THEN /\ spc' = [spc EXCEPT ![s] = "done"]
                        /\ UNCHANGED sexc
                   ELSE /\ spc' = [spc EXCEPT ![s] = "raised"]
                        /\ sexc' = [sexc EXCEPT ![s] = e]
    /\ UNCHANGED <<req, hpc, result, cookie, hlog, client, backend, cpc, cur, scur,
                   fromClient, fromBackend, backendCalls, cexc, authReply, scn, uri, side>>

\* ------------------------------------------------------------- the peers
\* The client peer disconnects.
ClientPeerCloses(s) ==
    /\ client[s] = "open"
    /\ client' = [client EXCEPT ![s] = "closed"]
    /\ UNCHANGED <<req, hpc, result, cookie, hlog, backend, cpc, spc, cur, scur,
                   fromClient, fromBackend, backendCalls, clientCalls, cexc, sexc, authReply, scn, uri, side>>

\* The backend closes its connection, normally or with an error.
BackendPeerCloses(s) ==
    /\ backend[s] = "open"
    /\ \E how \in {"closedOK", "closedError"} :
        backend' = [backend EXCEPT ![s] = how]
    /\ UNCHANGED <<req, hpc, result, cookie, hlog, client, cpc, spc, cur, scur,
                   fromClient, fromBackend, backendCalls, clientCalls, cexc, sexc, authReply, scn, uri, side>>

\* ------------------------------------------------------- the specification
Step(s) ==
    \/ Request(s)
    \/ HandlerEnter(s)
    \/ AuthReturn(s)
    \/ Connect1(s)
    \/ RetrySleep(s)
    \/ Connect2(s)
    \/ FailPrepare(s)
    \/ FailClose(s)
    \/ AwaitClientTask(s)
    \/ AwaitServerTask(s)
    \/ ClientPrepare(s)
    \/ ClientRecv(s)
    \/ ClientHandle(s)
    \/ ServerPrepare(s)
    \/ ServerRecv(s)
    \/ ServerHandle(s)
    \/ ClientPeerCloses(s)
    \/ BackendPeerCloses(s)

Next == \E s \in AllSessions : Step(s)

Spec == Init /\ [][Next]_vars

\* Two sessions at once.
SpecMulti == InitMulti /\ [][Next]_vars

\* The handler alone, up to the creation of the relay tasks, against every
\* reply to the authentication POST.
NextAuth ==
    \E s \in AllSessions :
        \/ Request(s)
        \/ HandlerEnter(s)
        \/ AuthReturn(s)
        \/ Connect1(s)
        \/ RetrySleep(s)
        \/ Connect2(s)
        \/ FailPrepare(s)
        \/ FailClose(s)

SpecAuth == InitAuth /\ [][NextAuth]_vars

\* The steps of a session that the proxy takes by itself once it can: every
\* step of the handler and of the two tasks except the arrival of a message
\* from a peer.  The event loop runs every coroutine that is ready, and the
\* calls to Prism (the POST, the connect) return or raise in the end; the
\* peers are free to stay silent and to keep their connection open.
ProxyStep(s) ==
    \/ HandlerEnter(s)
    \/ AuthReturn(s)
    \/ Connect1(s)
    \/ RetrySleep(s)
    \/ Connect2(s)
    \/ FailPrepare(s)
    \/ FailClose(s)
    \/ AwaitClientTask(s)
    \/ AwaitServerTask(s)
    \/ ClientPrepare(s)
    \/ (client[s] = "closed" /\ ClientRecv(s))
    \/ ClientHandle(s)
    \/ ServerPrepare(s)
    \/ (backend[s] # "open" /\ ServerRecv(s))
    \/ ServerHandle(s)

SpecLive == Spec /\ \A s \in AllSessions : WF_vars(ProxyStep(s))

\* The phase of a session, read off the handler's position: a request is a
\* session once it is past the test of vm_uuid; the handler authenticates,
\* connects (with the retry), relays while it awaits the two tasks, closes on
\* the failure paths (prepare, close) and is closed when it has ended.
Phase(s) ==
    IF hpc[s] \in {"idle", "entered"} \/ result[s] = "Response400" THEN "NoSession"
    ELSE IF hpc[s] = "auth" THEN "Authenticating"
    ELSE IF hpc[s] \in {"connect1", "sleep", "connect2"} THEN "Connecting"
    ELSE IF hpc[s] \in {"await_client", "await_server"} THEN "Relaying"
    ELSE IF hpc[s] \in {"fail_prepare", "fail_close"} THEN "Closing"
    ELSE "Closed"

\* The task that runs prism_websocket_handler is cancelled while the handler
\* awaits a relay task (the server shuts down): asyncio cancels the task
\* being awaited and raises CancelledError in the handler, which has no
\* except or finally clause.  The other relay task is not touched.
Running(pc) == pc \in {"prepare", "recv", "handle"}
Cancelled(pc) == IF Running(pc) THEN "cancelled" ELSE pc

HandlerCancelled(s) ==
    /\ LoopFree(s)
    /\ hpc[s] \in {"await_client", "await_server"}
    /\ IF hpc[s] = "await_client"
       THEN /\ cpc' = [cpc EXCEPT ![s] = Cancelled(@)]
            /\ UNCHANGED spc
       ELSE /\ spc' = [spc EXCEPT ![s] = Cancelled(@)]
            /\ UNCHANGED cpc
    /\ hpc' = [hpc EXCEPT ![s] = "raised"]
    /\ result' = [result EXCEPT ![s] = "CancelledError"]
    /\ UNCHANGED <<req, cookie, hlog, client, backend, cur, scur,
                   fromClient, fromBackend, backendCalls, clientCalls, cexc, sexc, authReply, scn, uri, side>>

NextCancel ==
    \/ Next
    \/ \E s \in AllSessions : HandlerCancelled(s)

SpecCancel == Init /\ [][NextCancel]_vars

\* =================================================================== claims
Last(q) == q[Len(q)]
Range(q) == {q[i] : i \in 1..Len(q)}
Connects(s) == SelectSeq(hlog[s], LAMBDA e : e.ev = "connect")
Auths(s) == SelectSeq(hlog[s], LAMBDA e : e.ev = "auth")
HandlerEnded(s) == hpc[s] \in {"returned", "raised"}
\* client_await has run its loop body for msg in this step.
ClientHandled(s) == cpc[s] = "handle" /\ cpc'[s] # "handle"
\* server_await has run its loop body for message in this step.
ServerHandled(s) == spc[s] = "handle" /\ spc'[s] # "handle"
CloseCalls(s) == SelectSeq(clientCalls[s], LAMBDA c : c.op = "close")

\* C1: in client_await, every client TEXT frame whose payload is not "close"
\* results in exactly one send to the backend, with the payload the frame
\* carried, nothing added or removed.
C1_TextForwardedVerbatim ==
    [][\A s \in AllSessions :
        (ClientHandled(s) /\ cur[s].type = "TEXT" /\ cur[s].data # Str("close"))
        => /\ Len(backendCalls'[s]) = Len(backendCalls[s]) + 1
           /\ Last(backendCalls'[s]).op = "server.send"
           /\ Last(backendCalls'[s]).data = cur[s].data]_vars

\* C2: in client_await, a client TEXT frame whose payload is "close" makes
\* exactly one call of client_ws.close(), which closes the client connection,
\* and makes no call of any kind on server_ws.
C2_CloseTextClosesClient ==
    [][\A s \in AllSessions :
        (ClientHandled(s) /\ cur[s] = Msg("TEXT", Str("close")))
        => /\ clientCalls'[s] = Append(clientCalls[s], Call("close", Empty, TRUE))
           /\ client'[s] = "closed"
           /\ backendCalls'[s] = backendCalls[s]]_vars

C2_Witness ==
    \E s \in AllSessions :
        /\ cur[s] = Msg("TEXT", Str("close"))
        /\ cpc[s] = "recv"
        /\ client[s] = "closed"
        /\ Len(CloseCalls(s)) = 1
        /\ backendCalls[s] = <<>>

\* C3: binary frames are relayed unchanged in both directions: for every
\* BINARY frame from the client exactly one send is made on server_ws, with
\* the frame's bytes, and for every bytes message from the backend exactly
\* one send_bytes is made on client_ws, with the message's bytes; the send
\* succeeds when the destination is open.
C3_BinaryRelayedUnchanged ==
    [][\A s \in AllSessions :
        /\ (ClientHandled(s) /\ cur[s].type = "BINARY")
           => /\ backendCalls'[s] = Append(backendCalls[s],
                     Call("server.send", cur[s].data, backend[s] = "open"))
              /\ cur[s].data.t = "bytes"
              /\ clientCalls'[s] = clientCalls[s]
        /\ (ServerHandled(s) /\ scur[s].t = "bytes")
           => /\ clientCalls'[s] = Append(clientCalls[s],
                     Call("send_bytes", scur[s], client[s] = "open"))
              /\ backendCalls'[s] = backendCalls[s]]_vars

C3_Witness ==
    \E s \in AllSessions :
        /\ Call("server.send", Bytes("DEADBEEF"), TRUE) \in Range(backendCalls[s])
        /\ Call("send_bytes", Bytes("DEADBEEF"), TRUE) \in Range(clientCalls[s])
        /\ fromClient[s] = <<Msg("BINARY", Bytes("DEADBEEF"))>>
        /\ fromBackend[s] = <<Bytes("DEADBEEF")>>

\* C4: when the backend connection closes, normally or with an error,
\* server_await terminates without an exception, and a handler that has ended
\* has closed the client connection.
C4_BackendCloseClosesClient ==
    \A s \in AllSessions :
        (req[s].upgrade /\ backend[s] \in {"closedOK", "closedError"})
        => /\ spc[s] # "raised"
           /\ (spc[s] = "done" /\ HandlerEnded(s)) =>
                 (client[s] = "closed" /\ Len(CloseCalls(s)) >= 1)

\* C5: on every path by which the handler ends after the check of vm_uuid
\* (here: of a WebSocket upgrade request), neither the client connection nor
\* the backend connection is open when the handler ends.
C5_BothClosedAtEnd ==
    \A s \in AllSessions :
        (req[s].upgrade /\ HandlerEnded(s) /\ result[s] # "Response400")
        => (client[s] # "open" /\ backend[s] # "open")

\* C6: a session makes at most two backend connect attempts; when the first
\* fails with a handshake rejection, the handler sleeps once (1 second) and
\* makes exactly one further attempt, whose failure ends the connect phase.
C6_OneRetryAfterHandshakeRejection ==
    \A s \in AllSessions :
        /\ Len(Connects(s)) <= 2
        /\ (/\ Len(Connects(s)) >= 1
            /\ IsInvalidHandshake(Connects(s)[1].res)
            /\ hpc[s] \notin {"sleep", "connect2"})
           => /\ Len(hlog[s]) = 4
              /\ hlog[s][3] = Ev("sleep", "1")
              /\ hlog[s][4].ev = "connect"
              /\ Len(Connects(s)) = 2

C6_Witness ==
    \E s \in AllSessions :
        /\ HandlerEnded(s)
        /\ Len(Connects(s)) = 2
        /\ Connects(s)[1].res = "InvalidHandshake"
        /\ Connects(s)[2].res = "InvalidHandshake"
        /\ cpc[s] = "none"

\* C7: when the first backend connect attempt fails with an error that is no
\* handshake rejection, no second attempt is made, the handler does not sleep
\* and no relay task is created.
C7_NoRetryForOtherErrors ==
    \A s \in AllSessions :
        (/\ Len(Connects(s)) >= 1
         /\ Connects(s)[1].res # "ok"
         /\ ~IsInvalidHandshake(Connects(s)[1].res))
        => /\ Len(Connects(s)) = 1
           /\ Len(hlog[s]) = 2
           /\ hpc[s] \in {"fail_prepare", "fail_close", "returned", "raised"}
           /\ cpc[s] = "none" /\ spc[s] = "none" /\ backend[s] = "none"

C7_Witness ==
    \E s \in AllSessions :
        /\ HandlerEnded(s)
        /\ Len(Connects(s)) = 1
        /\ Connects(s)[1].res \in {"InvalidURI", "ConnectionRefusedError"}

\* C8: for every kind of terminal backend connect failure of a WebSocket
\* upgrade request, the handler ends by returning client_ws with the client
\* connection closed, no relay task created and no frame forwarded; no
\* exception escapes.
C8_ConnectFailureClosesClient ==
    \A s \in AllSessions :
        (/\ req[s].upgrade
         /\ HandlerEnded(s)
         /\ Len(Connects(s)) >= 1
         /\ Last(Connects(s)).res # "ok")
        => /\ hpc[s] = "returned"
           /\ result[s] = "client_ws"
           /\ client[s] = "closed"
           /\ cpc[s] = "none" /\ spc[s] = "none"
           /\ backendCalls[s] = <<>>
           /\ Len(clientCalls[s]) = Len(CloseCalls(s))

\* C9: the backend connect is attempted only after _get_session_cookie has
\* returned a cookie; when it returns None no connect attempt is ever made, no
\* relay task is created, and the handler ends with the client connection
\* closed by one close() (for a request that is no WebSocket upgrade the
\* handshake raises HTTPBadRequest and no client connection was ever opened).
C9_AuthPrecedesConnect ==
    \A s \in AllSessions :
        /\ Len(Connects(s)) >= 1
           => (hlog[s][1].ev = "auth" /\ hlog[s][1].res # None /\ cookie[s] # None)
        /\ Len(Auths(s)) <= 1
        /\ (Len(Auths(s)) = 1 /\ Auths(s)[1].res = None)
           => /\ Len(Connects(s)) = 0
              /\ cpc[s] = "none" /\ spc[s] = "none" /\ backend[s] = "none"
              /\ hpc[s] \in {"fail_prepare", "fail_close", "returned", "raised"}
              /\ hpc[s] = "returned"
                 => (client[s] = "closed" /\ Len(CloseCalls(s)) = 1)
              /\ hpc[s] = "raised"
                 => (~req[s].upgrade /\ result[s] = "HTTPBadRequest"
                     /\ client[s] = "new")

C9_Witness ==
    \E s \in AllSessions :
        /\ hpc[s] = "returned"
        /\ hlog[s] = <<Ev("auth", None)>>
        /\ client[s] = "closed"

\* C10: for every request whose vm_uuid is present but is no well-formed
\* UUID, the authenticator is never called, no backend connect is attempted
\* and the handler's result is a 400 response.
C10_MalformedUuidRejected ==
    \A s \in AllSessions :
        (hpc[s] # "idle" /\ req[s].vm_uuid # None
         /\ req[s].vm_uuid \notin WellFormedUuids)
        => /\ Len(Auths(s)) = 0
           /\ Len(Connects(s)) = 0
           /\ HandlerEnded(s) => result[s] = "Response400"

C12_HandlerWaitsForBothTasks ==
    \A s \in AllSessions :
        (req[s].upgrade /\ HandlerEnded(s) /\ cpc[s] # "none")
        => (~Running(cpc[s]) /\ ~Running(spc[s]))

\* C13: within each direction the calls on the destination follow the order
\* of the messages taken from the source: the calls made on server_ws are the
\* images, in order, of a subsequence of the messages client_await has
\* handled, and the sends on client_ws those of the messages server_await has
\* handled; a message is taken only when the call for the one before has ended.
SubseqImage(calls, msgs, Image(_, _)) ==
    LET F[i \in 0..Len(calls), j \in 0..Len(msgs)] ==
            IF i = Len(calls) THEN TRUE
            ELSE IF j = Len(msgs) THEN FALSE
            ELSE \/ Image(calls[i + 1], msgs[j + 1]) /\ F[i + 1, j + 1]
                 \/ F[i, j + 1]
    IN  F[0, 0]

ClientImage(call, msg) ==
    \/ msg.type = "TEXT" /\ call.op = "server.send" /\ call.data.t = "str"
    \/ msg.type = "BINARY" /\ call.op = "server.send" /\ call.data = msg.data
    \/ msg.type = "PING" /\ call.op = "server.ping"
    \/ msg.type = "PONG" /\ call.op = "server.pong"

BackendImage(call, message) ==
    /\ call.data = message
    /\ call.op = IF message.t = "str" THEN "send_str" ELSE "send_bytes"

AllButLast(q) == SubSeq(q, 1, Len(q) - 1)
HandledFromClient(s) ==
    IF cpc[s] = "handle" THEN AllButLast(fromClient[s]) ELSE fromClient[s]
HandledFromBackend(s) ==
    IF spc[s] = "handle" THEN AllButLast(fromBackend[s]) ELSE fromBackend[s]
ClientSends(s) ==
    SelectSeq(clientCalls[s], LAMBDA c : c.op \in {"send_str", "send_bytes"})

C13_OrderPreserved ==
    \A s \in AllSessions :
        /\ SubseqImage(backendCalls[s], HandledFromClient(s), ClientImage)
        /\ SubseqImage(ClientSends(s), HandledFromBackend(s), BackendImage)

C13_Witness ==
    \E s \in AllSessions :
        /\ fromClient[s] = <<Msg("BINARY", Bytes("DEADBEEF")), Msg("PING", Empty)>>
        /\ Len(backendCalls[s]) = 2
        /\ fromBackend[s] = <<Str("hello"), Bytes("DEADBEEF")>>
        /\ Len(ClientSends(s)) = 2

\* C14: a frame is sent to the client only on a client_ws whose prepare has
\* completed, by a server_await that is past its own call of prepare, in
\* whichever order the two tasks run their prepare; and a call is made on
\* server_ws only when websockets.connect has returned an open connection.
C14_NoFrameBeforeOpen ==
    \A s \in AllSessions :
        /\ ClientSends(s) # <<>>
           => (client[s] # "new" /\ spc[s] \notin {"none", "prepare"})
        /\ backendCalls[s] # <<>>
           => /\ backend[s] # "none"
              /\ cpc[s] \notin {"none", "prepare"}
              /\ Connects(s) # <<>> /\ Last(Connects(s)).res = "ok"

C14_Witness ==
    \E s \in AllSessions :
        /\ ClientSends(s) # <<>> /\ ClientSends(s)[1].ok
        /\ backendCalls[s] # <<>> /\ backendCalls[s][1].ok

\* C15: after the task running the handler has been cancelled while relaying,
\* neither relay task is still running and neither connection is still open.
C15_CancelStopsAndCloses ==
    \A s \in AllSessions :
        result[s] = "CancelledError"
        => /\ ~Running(cpc[s]) /\ ~Running(spc[s])
           /\ client[s] # "open" /\ backend[s] # "open"

\* C16: a live-session registry holds a session from its start until its
\* end, and no longer holds it once the session has ended.
C16_RegistryTracksLiveSessions ==
    \A s \in AllSessions :
        /\ hpc[s] \notin {"idle", "returned", "raised"} => s \in Registry
        /\ HandlerEnded(s) => s \notin Registry

\* C17: for a WebSocket upgrade request whose relay tasks have been started,
\* no failure in the relay leaves client_await, server_await or the handler
\* as an exception: neither task ends by raising and the handler does not
\* raise.
C17_NoRelayExceptionEscapes ==
    \A s \in AllSessions :
        (req[s].upgrade /\ cpc[s] # "none")
        => (cpc[s] # "raised" /\ spc[s] # "raised" /\ hpc[s] # "raised")

PhaseEdges ==
    {<<"NoSession", "Authenticating">>,
     <<"Authenticating", "Connecting">>, <<"Connecting", "Relaying">>,
     <<"Relaying", "Closing">>, <<"Closing", "Closed">>,
     <<"Authenticating", "Closing">>, <<"Connecting", "Closing">>}
ThroughClosing ==
    {<<"Authenticating", "Closed">>, <<"Connecting", "Closed">>,
     <<"Relaying", "Closed">>}
ConnectFailedFinally(s) ==
    /\ Connects(s) # <<>>
    /\ Last(Connects(s)).res # "ok"
    /\ hpc[s] \notin {"sleep", "connect2"}

C20_AuthAndDelayDoNotBlock ==
    \A a \in AllSessions : \A b \in AllSessions \ {a} :
        hpc[a] \in {"auth", "sleep"}
        => /\ cpc[b] = "handle" => ENABLED ClientHandle(b)
           /\ spc[b] = "handle" => ENABLED ServerHandle(b)

\* The part of C20 about the retry delay alone.
C20_DelayDoesNotBlock ==
    \A a \in AllSessions : \A b \in AllSessions \ {a} :
        hpc[a] = "sleep"
        => /\ cpc[b] = "handle" => ENABLED ClientHandle(b)
           /\ spc[b] = "handle" => ENABLED ServerHandle(b)

\* C21: for every request to /proxy/{vm_uuid}, with or without a query
\* string, the uri given to websockets.connect is
\* wss://<host>:9440/vnc/vm/<vm_uuid>/proxy, followed by "?" and the query
\* string when the request has one.
ExpectedUri(r) ==
    "wss://" \o Host \o ":9440/vnc/vm/" \o r.vm_uuid \o "/proxy"
    \o (IF r.query = None THEN "" ELSE "?" \o r.query)

C21_BackendUriForm ==
    \A s \in AllSessions :
        Connects(s) # <<>> => uri[s] = ExpectedUri(req[s])

\* C22: when authentication gave a cookie and websockets.connect succeeded,
\* the handler returns client_ws, the web.WebSocketResponse whose status is
\* 101, and it returns only when client_await and server_await have both
\* completed.
C22_SuccessReturnsClientWs ==
    \A s \in AllSessions :
        (hpc[s] = "returned" /\ cookie[s] # None
         /\ Connects(s) # <<>> /\ Last(Connects(s)).res = "ok")
        => /\ result[s] = "client_ws"
           /\ ResponseStatus(result[s]) = 101
           /\ cpc[s] = "done" /\ spc[s] = "done"

C22_Witness ==
    \E s \in AllSessions :
        /\ hpc[s] = "returned" /\ result[s] = "client_ws"
        /\ cookie[s] = "JSESSIONID=abc"
        /\ Connects(s) = <<Ev("connect", "ok")>>
        /\ cpc[s] = "done" /\ spc[s] = "done"
        /\ backendCalls[s] # <<>>

\* C23: for a request that is no WebSocket upgrade, once authentication has
\* given no cookie, or websockets.connect has raised InvalidURI, or it has
\* raised InvalidHandshake on both attempts, the handler is at
\* client_ws.prepare on the failure path or has ended by raising
\* HTTPBadRequest from it; it never returns and never closes client_ws.
C23_Failed(s) ==
    \/ Auths(s) # <<>> /\ cookie[s] = None
    \/ Connects(s) # <<>> /\ Last(Connects(s)).res = "InvalidURI"
    \/ Connects(s) = <<Ev("connect", "InvalidHandshake"), Ev("connect", "InvalidHandshake")>>

C24_SessionsIsolated ==
    \A a \in AllSessions :
        /\ SubseqImage(backendCalls[a], HandledFromClient(a), ClientImage)
        /\ SubseqImage(ClientSends(a), HandledFromBackend(a), BackendImage)
        /\ cookie[a] # None => cookie[a] = "JSESSIONID=" \o authReply[a].jsessionid
        /\ \A b \in AllSessions \ {a} :
            /\ \A i \in 1..Len(backendCalls[a]) :
                   \A m \in Range(fromClient[b]) : ~ClientImage(backendCalls[a][i], m)
            /\ \A i \in 1..Len(ClientSends(a)) :
                   \A m \in Range(fromBackend[b]) : ~BackendImage(ClientSends(a)[i], m)
            /\ cookie[a] # None => cookie[a] # cookie[b]

C24_Witness ==
    \A a \in AllSessions :
        /\ backendCalls[a] # <<>> /\ backendCalls[a][1].ok
        /\ ClientSends(a) # <<>> /\ ClientSends(a)[1].ok
        /\ cookie[a] # None

\* C25: server_await makes, for every message it has taken from the backend,
\* exactly one send on client_ws, in the same position: send_str for a str
\* and send_bytes for any other message, with the message itself as payload.
C25_BackendMessagesForwardedOnce ==
    \A s \in AllSessions :
        /\ Len(ClientSends(s)) = Len(HandledFromBackend(s))
        /\ \A i \in 1..Len(ClientSends(s)) :
            /\ ClientSends(s)[i].data = fromBackend[s][i]
            /\ ClientSends(s)[i].op =
                   IF fromBackend[s][i].t = "str" THEN "send_str" ELSE "send_bytes"

C25_Witness ==
    \E s \in AllSessions :
        /\ fromBackend[s] = <<Bytes("DEADBEEF"), Str("hello")>>
        /\ ClientSends(s) = <<Call("send_bytes", Bytes("DEADBEEF"), TRUE),
                              Call("send_str", Str("hello"), TRUE)>>

\* C26: a session obtains its cookie exactly once and holds at most one
\* backend connection: _get_session_cookie is called once, at most one call
\* of websockets.connect returns a connection, it is the last one made, and a
\* second call is made only after the first raised InvalidHandshake, which
\* left no connection.
OkConnects(s) == SelectSeq(Connects(s), LAMBDA e : e.res = "ok")

C26_OneCredentialOneConnection ==
    \A s \in AllSessions :
        /\ Len(Auths(s)) <= 1
        /\ (Phase(s) \notin {"NoSession", "Authenticating"}) => Len(Auths(s)) = 1
        /\ Len(Connects(s)) <= 2
        /\ Len(OkConnects(s)) <= 1
        /\ Len(Connects(s)) = 2 => IsInvalidHandshake(Connects(s)[1].res)
        /\ (backend[s] # "none")
           <=> (Connects(s) # <<>> /\ Last(Connects(s)).res = "ok")

C26_Witness ==
    \E s \in AllSessions :
        /\ Connects(s) = <<Ev("connect", "InvalidHandshake"), Ev("connect", "ok")>>
        /\ Len(Auths(s)) = 1
        /\ backend[s] = "open"

\* C27: when the client's stream has ended while the session relays, so that
\* client_await has returned, the handler eventually ends, whether or not the
\* backend ever closes its connection or sends another message.
C27_ClientEndEndsSession ==
    \A s \in AllSessions :
        (req[s].upgrade /\ cpc[s] = "done" /\ client[s] = "closed")
        ~> HandlerEnded(s)

\* C28: after client_await has stopped because a send to the backend failed,
\* the proxy has closed server_ws, and after server_await has stopped because
\* a send to the client failed, the proxy has closed client_ws.
ClientStoppedOnSend(s) ==
    cpc[s] = "done" /\ backendCalls[s] # <<>> /\ ~Last(backendCalls[s]).ok
ServerStoppedOnSend(s) ==
    spc[s] = "done" /\ ClientSends(s) # <<>> /\ ~Last(ClientSends(s)).ok

C28_FailedSendClosesThatSide ==
    \A s \in AllSessions :
        /\ ClientStoppedOnSend(s)
           => \E i \in 1..Len(backendCalls[s]) : backendCalls[s][i].op = "server.close"
        /\ ServerStoppedOnSend(s) => CloseCalls(s) # <<>>

C30_LoopsEndIndependently ==
    [][\A s \in AllSessions :
          /\ ~(cpc[s] # "none" /\ cpc'[s] # cpc[s] /\ spc'[s] # spc[s])
          /\ (TaskEnded(cpc'[s]) /\ ~TaskEnded(cpc[s]))
             => \/ cpc[s] = "prepare" /\ PrepareRaises(req[s])
                \/ cpc[s] = "recv" /\ client[s] = "closed"
                \/ cpc[s] = "handle" /\ backend[s] # "open"
                   /\ Last(backendCalls'[s]).ok = FALSE
          /\ (TaskEnded(spc'[s]) /\ ~TaskEnded(spc[s]))
             => \/ spc[s] = "prepare" /\ PrepareRaises(req[s])
                \/ spc[s] = "recv" /\ backend[s] \in {"closedOK", "closedError"}
                \/ spc[s] = "handle" /\ client[s] # "open"
                   /\ Last(clientCalls'[s]).ok = FALSE]_vars

C30_Witness ==
    \E s \in AllSessions :
        /\ spc[s] = "done" /\ backend[s] = "closedOK"
        /\ cpc[s] = "handle" /\ client[s] = "open"
        /\ fromBackend[s] # <<>>

ClientAwaitClosed(s) == cpc[s] # "none" /\ CloseCalls(s) # <<>>

C33_NothingForwardedAfterClose ==
    [][\A s \in AllSessions :
          ClientAwaitClosed(s)
          => /\ backendCalls'[s] = backendCalls[s]
             /\ fromClient'[s] = fromClient[s]
             /\ cpc'[s] \in {"recv", "done"}]_vars

C33_Witness ==
    \E s \in AllSessions :
        /\ fromClient[s] = <<Msg("BINARY", Bytes("DEADBEEF")), Msg("TEXT", Str("close"))>>
        /\ Len(backendCalls[s]) = 1
        /\ ClientAwaitClosed(s) /\ cpc[s] = "done"
        /\ backend[s] = "open"

\* C34: a session makes exactly one authentication request: the reply it got
\* is never replaced by another, there is at most one auth event, and after
\* a failed authentication the session ends on the failure path without a
\* connect.
C34_AuthNeverRetried ==
    /\ [](\A s \in AllSessions :
             /\ Len(Auths(s)) <= 1
             /\ (authReply[s] # NoReply) <=> (Len(Auths(s)) = 1)
             /\ (Auths(s) # <<>> /\ cookie[s] = None)
                => /\ Connects(s) = <<>>
                   /\ Phase(s) \in {"Closing", "Closed"})
    /\ [][\A s \in AllSessions :
             authReply[s] # NoReply
             => (authReply'[s] = authReply[s] /\ cookie'[s] = cookie[s])]_vars

C34_Witness ==
    \E s \in AllSessions :
        /\ authReply[s] = [exc |-> FALSE, status |-> 401, jsessionid |-> None]
        /\ Len(Auths(s)) = 1
        /\ hpc[s] = "returned" /\ result[s] = "client_ws"

\* ---------------------------------------------------------------------
\* wsgi_file_handler.py: the steps of wsgi_file_handler
\* ---------------------------------------------------------------------

\* Lines 76-90: file_path is built and checked against the 'static' directory.
FileCheck ==
    /\ fpc = "start"
    /\ LET path == PathJoin("static",
                            unquote(IF match_info = None THEN "index.html" ELSE match_info))
           base_path == abspath("static")
           requested_path == abspath(path)
       IN  /\ file_path' = path
           /\ IF ~PathAllowed(requested_path, base_path)
              THEN /\ response' = Response(403, "Forbidden")
                   /\ fpc' = "returned"
              ELSE /\ fpc' = "checked"
                   /\ UNCHANGED response
    /\ UNCHANGED <<match_info, opened, written, notFile>>

\* Lines 92-96: a path that is no regular file is answered 404.
FileLookup ==
    /\ fpc = "checked"
    /\ IF ~isfile(file_path)
       THEN /\ response' = Response(404, "File not found")
            /\ fpc' = "returned"
       ELSE /\ fpc' = "found"
            /\ UNCHANGED response
    /\ UNCHANGED <<match_info, file_path, opened, written, notFile>>

\* Lines 104-111: the file is opened and the stream response prepared.
FileOpen ==
    /\ fpc = "found"
    /\ opened' = Resolve(file_path)
    /\ response' = Response(200, None)
    /\ fpc' = "reading"
    /\ UNCHANGED <<match_info, file_path, written, notFile>>

\* Lines 113-116: one chunk is read and written to the response.
FileChunk ==
    /\ fpc = "reading"
    /\ written < Files[opened]
    /\ LET chunk_size == ChunkSize(Files[opened])
           rest == Files[opened] - written
       IN  written' = written + (IF rest < chunk_size THEN rest ELSE chunk_size)
    /\ UNCHANGED <<match_info, fpc, file_path, response, opened, notFile>>

\* Lines 113-115 and 117-122: the read returns nothing and the response ends.
FileEof ==
    /\ fpc = "reading"
    /\ written = Files[opened]
    /\ fpc' = "returned"
    /\ UNCHANGED <<match_info, file_path, response, opened, written, notFile>>

NextFile ==
    \/ FileCheck
    \/ FileLookup
    \/ FileOpen
    \/ FileChunk
    \/ FileEof

InitFile == scn = "file" /\ InitSessions

SpecFile == InitFile /\ [][NextFile]_vars

\* The absolute path lies in the directory 'static' of the working directory.
InsideStatic(path) ==
    path = abspath("static") \/ StartsWith(path, abspath("static") \o "/")

\* The absolute path the request names.
RequestedPath ==
    abspath(PathJoin("static", unquote(IF match_info = None THEN "index.html" ELSE match_info)))

\* C35: wsgi_file_handler opens no file whose absolute path lies outside the
\* directory 'static', and a request whose resolved path lies outside it is
\* answered 403 Forbidden with nothing opened and nothing written.
C35_NeverServesOutsideStatic ==
    /\ opened # None => InsideStatic(opened)
    /\ (fpc # "start" /\ ~InsideStatic(RequestedPath))
       => /\ response = Response(403, "Forbidden")
          /\ opened = None /\ written = 0

\* ---------------------------------------------------------------------
\* demo_ws_proxy.py: the steps of proxy_connection and of its two tasks
\* ---------------------------------------------------------------------

\* Lines 87-93 and 98-105: the connect; on success the two tasks are created,
\* on failure the except clause logs and the function returns.
DemoConnect(r) ==
    /\ dpc = "start"
    /\ IF r = "ok"
       THEN /\ server_ws' = "open"
            /\ c2s' = "recv"
            /\ s2c' = "recv"
            /\ dpc' = "await_client"
            /\ dlog' = Append(dlog, "Connected to remote websocket")
       ELSE /\ dpc' = "returned"
            /\ dlog' = Append(dlog, DemoConnectLog(r))
            /\ UNCHANGED <<server_ws, c2s, s2c>>
    /\ UNCHANGED <<client_ws, toServer, toClient, notDemo>>

\* How a task leaves its loop on the exception e.
LoopExit(e) == IF LoopCaught(e) THEN "done" ELSE "raised"

\* Line 166: `async for message in client_ws` yields a message, ends when
\* client_ws was closed normally, or raises ConnectionClosedError.
C2SRecv ==
    /\ c2s = "recv"
    /\ \/ /\ client_ws = "open"
          /\ toServer < MaxDemoMsgs
          /\ c2s' = "send"
          /\ UNCHANGED dlog
       \/ /\ client_ws = "closed_ok"
          /\ c2s' = "done"
          /\ UNCHANGED dlog
       \/ /\ client_ws = "closed_error"
          /\ c2s' = LoopExit("ConnectionClosedError")
          /\ dlog' = Append(dlog, "Error in client_to_server")
    /\ UNCHANGED <<dpc, server_ws, client_ws, s2c, toServer, toClient, notDemo>>

\* Lines 167-172: the message is sent on server_ws; a send on a connection
\* that is no longer open raises ConnectionClosed.
C2SSend ==
    /\ c2s = "send"
    /\ IF server_ws = "open"
       THEN /\ toServer' = toServer + 1
            /\ c2s' = "recv"
            /\ UNCHANGED dlog
       ELSE /\ c2s' = LoopExit(ClosedException(server_ws))
            /\ dlog' = Append(dlog, IF server_ws = "closed_ok"
                                    THEN "Connection closed normally in client_to_server"
                                    ELSE "Error in client_to_server")
            /\ UNCHANGED toServer
    /\ UNCHANGED <<dpc, server_ws, client_ws, s2c, toClient, notDemo>>

\* Line 132: the iterator of server_ws.
S2CRecv ==
    /\ s2c = "recv"
    /\ \/ /\ server_ws = "open"
          /\ toClient < MaxDemoMsgs
          /\ s2c' = "send"
          /\ UNCHANGED dlog
       \/ /\ server_ws = "closed_ok"
          /\ s2c' = "done"
          /\ UNCHANGED dlog
       \/ /\ server_ws = "closed_error"
          /\ s2c' = LoopExit("ConnectionClosedError")
          /\ dlog' = Append(dlog, "Error in server_to_client")
    /\ UNCHANGED <<dpc, server_ws, client_ws, c2s, toServer, toClient, notDemo>>

\* Lines 133-138: the message is sent on client_ws.
S2CSend ==
    /\ s2c = "send"
    /\ IF client_ws = "open"
       THEN /\ toClient' = toClient + 1
            /\ s2c' = "recv"
            /\ UNCHANGED dlog
       ELSE /\ s2c' = LoopExit(ClosedException(client_ws))
            /\ dlog' = Append(dlog, IF client_ws = "closed_ok"
                                    THEN "Connection closed normally in server_to_client"
                                    ELSE "Error in server_to_client")
            /\ UNCHANGED toClient
    /\ UNCHANGED <<dpc, server_ws, client_ws, c2s, toServer, notDemo>>

\* Line 95: await task_client_to_server. An exception of the task is raised
\* here, leaves the with block and is caught at lines 102-105.
DemoAwaitClient ==
    /\ dpc = "await_client"
    /\ c2s \in {"done", "raised"}
    /\ IF c2s = "done"
       THEN /\ dpc' = "await_server"
            /\ UNCHANGED <<server_ws, dlog>>
       ELSE /\ server_ws' = Exited(server_ws)
            /\ dlog' = Append(dlog, DemoConnectLog("ConnectionClosedError"))
            /\ dpc' = "returned"
    /\ UNCHANGED <<client_ws, c2s, s2c, toServer, toClient, notDemo>>

\* Lines 96-97: await task_server_to_client, then the with block is left.
DemoAwaitServer ==
    /\ dpc = "await_server"
    /\ s2c \in {"done", "raised"}
    /\ server_ws' = Exited(server_ws)
    /\ dlog' = Append(dlog, IF s2c = "done" THEN "Connection closed"
                            ELSE DemoConnectLog("ConnectionClosedError"))
    /\ dpc' = "returned"
    /\ UNCHANGED <<client_ws, c2s, s2c, toServer, toClient, notDemo>>

\* The client closes its connection, normally or not.
DemoClientCloses(how) ==
    /\ dpc \in {"start", "await_client", "await_server"}
    /\ client_ws = "open"
    /\ client_ws' = how
    /\ UNCHANGED <<dpc, server_ws, c2s, s2c, toServer, toClient, dlog, notDemo>>

\* The remote server closes its connection, normally or not.
DemoServerCloses(how) ==
    /\ dpc \in {"await_client", "await_server"}
    /\ server_ws = "open"
    /\ server_ws' = how
    /\ UNCHANGED <<dpc, client_ws, c2s, s2c, toServer, toClient, dlog, notDemo>>

NextDemo ==
    \/ \E r \in DemoConnectResults : DemoConnect(r)
    \/ C2SRecv
    \/ C2SSend
    \/ S2CRecv
    \/ S2CSend
    \/ DemoAwaitClient
    \/ DemoAwaitServer
    \/ \E how \in {"closed_ok", "closed_error"} : DemoClientCloses(how)
    \/ \E how \in {"closed_ok", "closed_error"} : DemoServerCloses(how)

InitDemo == scn = "demo" /\ InitSessions

SpecDemo == InitDemo /\ [][NextDemo]_vars

HttpMatch ==
    /\ wpc = "start"
    /\ IF environ.route = "NotFound"
       THEN /\ started' = Append(started,
                   StartResponse("404 NOT FOUND",
                       start_response_wrapper(environ.HTTP_CONNECTION,
                                              <<Header("Content-Type", "text/html")>>)))
            /\ wpc' = "returned"
       ELSE /\ wpc' = "endpoint"
            /\ UNCHANGED started
    /\ UNCHANGED <<environ, notHttp>>

\* Lines 91-107 and 116: the endpoint calls the start_response it was given.
HttpStartResponse(http_status, headers) ==
    /\ wpc = "endpoint"
    /\ Len(started) < MaxResponses
    /\ started' = Append(started,
                         StartResponse(http_status,
                                       start_response_wrapper(environ.HTTP_CONNECTION, headers)))
    /\ UNCHANGED <<environ, wpc, notHttp>>

\* Line 116: the endpoint returns.
HttpEndpointReturns ==
    /\ wpc = "endpoint"
    /\ wpc' = "returned"
    /\ UNCHANGED <<environ, started, notHttp>>

\* Lines 117-119: the endpoint raises; handle logs and raises again.
HttpEndpointRaises ==
    /\ wpc = "endpoint"
    /\ wpc' = "raised"
    /\ UNCHANGED <<environ, started, notHttp>>

NextHttp ==
    \/ HttpMatch
    \/ \E http_status \in {"200 OK", "101 Switching Protocols"}, headers \in EndpointHeaders :
           HttpStartResponse(http_status, headers)
    \/ HttpEndpointReturns
    \/ HttpEndpointRaises

InitHttp == scn = "http" /\ InitSessions

SpecHttp == InitHttp /\ [][NextHttp]_vars

\* The elements of a comma-separated header value, piece being the element
\* read so far.
RECURSIVE CommaList(_, _)
CommaList(str, piece) ==
    IF str = "" THEN <<piece>>
    ELSE IF SubSeq(str, 1, 1) = "," THEN <<piece>> \o CommaList(From(str, 2), "")
         ELSE CommaList(From(str, 2), piece \o SubSeq(str, 1, 1))

\* The Connection header of the request has the element upgrade, in any case
\* of its letters and with any white space around it.
HasUpgradeOption(connection) ==
    \E i \in DOMAIN CommaList(connection, "") :
        lower(strip(CommaList(connection, "")[i])) = "upgrade"

\* The started response carries a Connection header whose value includes close.
CarriesClose(r) ==
    \E i \in DOMAIN r.headers :
        lower(r.headers[i][1]) = "connection" /\ Search("close", lower(r.headers[i][2]))

\* C37: for a request whose Connection header contains upgrade, every
\* response started through the wrapper carries a Connection header whose
\* value includes close.
C37_UpgradeResponsesCarryClose ==
    HasUpgradeOption(environ.HTTP_CONNECTION)
    => \A i \in DOMAIN started : CarriesClose(started[i])

\* ---------------------------------------------------------------------
\* wsgi_web_socket.py: the steps of WebSocketWSGI.__call__
\* ---------------------------------------------------------------------

\* start_response(status, headers) followed by the return of the body.
WsReject(status, text) ==
    /\ ws_started' = Response(status, text)
    /\ wspc' = "returned"

\* Lines 68-74: the Connection and Upgrade headers.
WsCheckUpgrade ==
    /\ wspc = "start"
    /\ IF ~UpgradeToWebSocket(ws_environ)
       THEN WsReject(400, "")
       ELSE wspc' = "version" /\ UNCHANGED ws_started
    /\ UNCHANGED <<ws_environ, sock, invoked, ws_closed, notWs>>

\* Lines 76-89: the version header.
WsCheckVersion ==
    /\ wspc = "version"
    /\ IF ws_environ.HTTP_SEC_WEBSOCKET_VERSION = None
       THEN WsReject(426, "Bad protocol version")
       ELSE IF ws_environ.HTTP_SEC_WEBSOCKET_VERSION \notin SUPPORTED_VERSIONS
            THEN WsReject(400, "Unsupported WebSocket Version")
            ELSE wspc' = "key" /\ UNCHANGED ws_started
    /\ UNCHANGED <<ws_environ, sock, invoked, ws_closed, notWs>>

\* Lines 91-111: the key.
WsCheckKey ==
    /\ wspc = "key"
    /\ LET key == strip(Get(ws_environ, "HTTP_SEC_WEBSOCKET_KEY"))
           key_len == B64DecodedLen(key)
       IN  IF key = ""
           THEN WsReject(400, "Sec-Websocket-Key header is missing/empty")
           ELSE IF key_len = -1
                THEN WsReject(400, "Invalid key")
                ELSE IF ~KeyLenOk(key_len)
                     THEN WsReject(400, "Key is an unexpected length")
                     ELSE wspc' = "accepted" /\ UNCHANGED ws_started
    /\ UNCHANGED <<ws_environ, sock, invoked, ws_closed, notWs>>

\* Lines 113-143: the 101 reply is sent on the socket; sendall may raise.
WsHandshake(ok) ==
    /\ wspc = "accepted"
    /\ IF ok
       THEN /\ sock' = Append(sock, "HTTP/1.1 101 Switching Protocols")
            /\ wspc' = "handler"
       ELSE /\ wspc' = "raised"
            /\ UNCHANGED sock
    /\ UNCHANGED <<ws_environ, ws_started, invoked, ws_closed, notWs>>

\* Lines 144-152: the handler is called; a socket.error whose errno is not
\* acceptable is raised again.
WsHandler(outcome) ==
    /\ wspc = "handler"
    /\ invoked' = invoked + 1
    /\ wspc' = IF outcome = "returns" \/ outcome \in ACCEPTABLE_CLIENT_ERRORS
               THEN "closing" ELSE "raised"
    /\ UNCHANGED <<ws_environ, ws_started, sock, ws_closed, notWs>>

\* Lines 153-155: the closing frame, and the return.
WsClose ==
    /\ wspc = "closing"
    /\ ws_closed' = TRUE
    /\ wspc' = "returned"
    /\ UNCHANGED <<ws_environ, ws_started, sock, invoked, notWs>>

NextWs ==
    \/ WsCheckUpgrade
    \/ WsCheckVersion
    \/ WsCheckKey
    \/ \E ok \in BOOLEAN : WsHandshake(ok)
    \/ \E outcome \in HandlerOutcomes : WsHandler(outcome)
    \/ WsClose

InitWs == scn = "ws" /\ InitSessions

SpecWs == InitWs /\ [][NextWs]_vars

\* The first handshake check a request fails, "none" when it passes all. The
\* first check is the one __call__ makes of the Connection and Upgrade headers.
FailedCheck(env) ==
    LET key == strip(Get(env, "HTTP_SEC_WEBSOCKET_KEY")) IN
    IF ~UpgradeToWebSocket(env) THEN "upgrade"
    ELSE IF env.HTTP_SEC_WEBSOCKET_VERSION = None THEN "version absent"
    ELSE IF env.HTTP_SEC_WEBSOCKET_VERSION \notin {"13", "8", "7"} THEN "version"
    ELSE IF key = "" THEN "key missing"
    ELSE IF B64DecodedLen(key) = -1 THEN "key undecodable"
    ELSE IF B64DecodedLen(key) # 16 THEN "key length"
    ELSE "none"

\* C38: the handler is invoked at most once, and only for a request that
\* passes every handshake check and after the 101 reply was sent; a request
\* that fails a check is answered 400, or 426 where the check it fails is
\* the presence of the version header, with nothing sent on the socket and
\* the handler never invoked.
C38_HandlerOnlyAfterHandshake ==
    /\ [](/\ invoked <= 1
          /\ invoked > 0
             => /\ FailedCheck(ws_environ) = "none"
                /\ sock = <<"HTTP/1.1 101 Switching Protocols">>
                /\ ws_started = NoResponse
          /\ FailedCheck(ws_environ) # "none"
             => /\ invoked = 0 /\ sock = <<>>
                /\ wspc \in {"start", "version", "key", "returned"}
                /\ wspc = "returned"
                   => ws_started.status =
                          IF FailedCheck(ws_environ) = "version absent" THEN 426 ELSE 400)
    /\ [][invoked' # invoked => (wspc = "handler" /\ sock # <<>>)]_vars

\* A request with a key of 18 bytes was answered 400.
C38_Witness ==
    /\ FailedCheck(ws_environ) = "key length"
    /\ wspc = "returned" /\ ws_started.status = 400
    /\ invoked = 0 /\ sock = <<>>

====
